---- MODULE Spec2Model ----
(***************************************************************************)
(* Model of the transaction engine of k-brk/transactions.                  *)
(*                                                                         *)
(* Engine::process_transaction asks the TransactionProcessor for the       *)
(* AccountDelta a transaction implies, applies it to the client's Account  *)
(* and reports success or failure back to the TransactionStore.            *)
(*                                                                         *)
(* Amounts are rust_decimal values.  The engine is modelled on integers (a  *)
(* number of units): Decimal addition and negation are exact inside the    *)
(* range of the 96-bit mantissa, and a sum outside it panics.  The         *)
(* serializer is modelled on decimals with a sign, a mantissa and a scale. *)
(***************************************************************************)
EXTENDS Integers, Sequences, FiniteSets, TLC

\* ---------------------------------------------------------------- bounds
\* The largest amount of an input record, and the number of records of the
\* input file: of an arbitrary input, of an input whose amounts are all
\* positive, and of a well-formed input (positive amounts, every deposit and
\* withdrawal under a tx id of its own).
MaxAmount == 2
MaxTxns == 4
MaxTxnsPositive == 5
MaxTxnsWellFormed == 6
\* The number of records of the longest input file of a whole run of main.
MaxTxnsMain == 3
\* The number of records of an input whose amounts are all 1, of an input
\* followed together with the runs of each client's records alone, and of an
\* input without negative amounts.
MaxTxnsLifecycle == 5
MaxTxnsIsolation == 5
MaxTxnsNonNegative == 4
\* The largest mantissa and the largest scale of the amounts serialized.
MaxMantissa == 25
MaxScale == 5

\* ClientID (u16) and TransactionID (u32) values that occur in the input.
Clients == {1, 2}
TxIds == {1, 2}
\* A well-formed input needs a tx id per deposit and withdrawal.
MoreTxIds == {1, 2, 3}
\* Amounts the input carries: amounts are not validated, so zero and a
\* negative amount are inputs too.
Amounts == (0 - 1)..MaxAmount
\* The amounts of an input whose amounts are all positive.
PositiveAmounts == 1..MaxAmount

\* The amounts of an input without negative amounts.
NonNegativeAmounts == 0..MaxAmount
\* The amounts of an input whose amounts are all 1.
UnitAmounts == {1}

\* ---------------------------------------------------------------- state
VARIABLES
    accounts,       \* AccountStore.accounts : ClientID -> Account
    transactions,   \* TransactionStore.transactions : TransactionID -> Transaction
    processed,      \* number of records main has handed to process_transaction
    last,           \* the process_transaction call of main's last step, if it
                    \* made one: its argument, the delta produce_delta returned
                    \* and the result of Account::apply
    disputed,       \* history: tx ids whose stored entry has entered Disputed
    input,          \* the input file read: the amounts and tx ids its records
                    \* carry, whether every deposit and withdrawal has a tx id
                    \* of its own, the number of its records, the extension of
                    \* its path and whether it can be opened
    pc,             \* where main is: "start", "open", "read", "done", "failed",
                    \* "panicked"; where the serializer is: "serialize",
                    \* "serialized"
    read,           \* number of records the csv reader has yielded
    output,         \* the accounts main has serialized to stdout
    balance,        \* the Amount handed to fixed_width_amount
    text,           \* the string fixed_width_amount hands to serialize_str
    build,          \* what the rust_decimal of the build does where its
                    \* versions may differ
    alone           \* per client, the engine of a second run of the program
                    \* on the records of that client only; NotCompared when
                    \* no such runs are followed

vars == <<accounts, transactions, processed, last, disputed, input, pc, read, output,
          balance, text, build, alone>>

\* ---------------------------------------------------------------- Option
None == <<>>
Some(x) == <<x>>
IsSome(o) == o # <<>>
Unwrap(o) == o[1]
\* Option<bool>::unwrap_or_default
unwrap_or_default(o) == IF IsSome(o) THEN Unwrap(o) ELSE FALSE

\* ---------------------------------------------------------------- Transaction
TransactionState == {"New", "Succeeded", "Failed", "Disputed", "Resolved", "Chargeback"}

Deposit(amount) == [type |-> "Deposit", amount |-> amount]
Withdrawal(amount) == [type |-> "Withdrawal", amount |-> amount]
Dispute == [type |-> "Dispute"]
Resolve == [type |-> "Resolve"]
Chargeback == [type |-> "Chargeback"]

TransactionKind ==
    {Deposit(a) : a \in Amounts} \cup {Withdrawal(a) : a \in Amounts}
        \cup {Dispute, Resolve, Chargeback}

\* A deserialized record: the state field is skipped by serde and defaults to New.
Transaction(kind, tx_id, client_id) ==
    [kind |-> kind, client_id |-> client_id, tx_id |-> tx_id, state |-> "New"]

HasAmount(kind) == kind.type \in {"Deposit", "Withdrawal"}

\* ---------------------------------------------------------------- AccountDelta
AccountDelta_none ==
    [available |-> None, held |-> None, locked |-> None, can_create_debt |-> None]

AccountDelta_deposit(amount) ==
    [AccountDelta_none EXCEPT !.available = Some(amount)]

AccountDelta_withdrawal(amount) == AccountDelta_deposit(0 - amount)

AccountDelta_resolve(amount) ==
    [AccountDelta_none EXCEPT !.available = Some(amount), !.held = Some(0 - amount)]

\* dispute_deposit without the permission to create debt.
AccountDelta_dispute_deposit_no_debt(amount) ==
    [AccountDelta_none EXCEPT !.available = Some(0 - amount), !.held = Some(amount)]

AccountDelta_dispute_deposit(amount) ==
    [AccountDelta_none EXCEPT !.available = Some(0 - amount),
                              !.held = Some(amount),
                              !.can_create_debt = Some(TRUE)]

\* dispute_withdrawal that also takes the amount from available.
AccountDelta_dispute_withdrawal_from_available(amount) ==
    [AccountDelta_none EXCEPT !.available = Some(0 - amount),
                              !.held = Some(amount),
                              !.can_create_debt = Some(TRUE)]

AccountDelta_dispute_withdrawal(amount) ==
    [AccountDelta_none EXCEPT !.held = Some(amount)]

\* chargeback that does not lock the account.
AccountDelta_chargeback_unlocked(amount) ==
    [AccountDelta_none EXCEPT !.held = Some(0 - amount)]

AccountDelta_chargeback(amount) ==
    [AccountDelta_none EXCEPT !.held = Some(0 - amount), !.locked = Some(TRUE)]

\* ---------------------------------------------------------------- Account
Account_new(id) ==
    [id |-> id, available |-> 0, held |-> 0, total |-> 0, locked |-> FALSE]

\* update_total that forgets the held funds.
update_total_without_held(acc) == [acc EXCEPT !.total = acc.available]

update_total(acc) == [acc EXCEPT !.total = acc.available + acc.held]

\* The steps of apply without the one that sets locked.
Commit_without_lock(acc, change) ==
    LET a1 == IF IsSome(change.available)
              THEN [acc EXCEPT !.available = @ + Unwrap(change.available)]
              ELSE acc
        a2 == IF IsSome(change.held)
              THEN [a1 EXCEPT !.held = @ + Unwrap(change.held)]
              ELSE a1
    IN  update_total(a2)

\* The steps of apply that follow its checks: available, held, locked, total.
Commit(acc, change) ==
    LET a1 == IF IsSome(change.available)
              THEN [acc EXCEPT !.available = @ + Unwrap(change.available)]
              ELSE acc
        a2 == IF IsSome(change.held)
              THEN [a1 EXCEPT !.held = @ + Unwrap(change.held)]
              ELSE a1
        a3 == IF IsSome(change.locked)
              THEN [a2 EXCEPT !.locked = Unwrap(change.locked)]
              ELSE a2
    IN  update_total(a3)

\* A funds check that lets every delta through.
Overdraws_never(acc, change) == FALSE

\* The funds check of apply: the delta would take available below zero and
\* may not create debt.
Overdraws(acc, change) ==
    /\ IsSome(change.available)
    /\ ~unwrap_or_default(change.can_create_debt)
    /\ acc.available + Unwrap(change.available) < 0

\* apply without the early return on a locked account.
apply_ignoring_lock(acc, change) ==
    IF Overdraws(acc, change)
    THEN [result |-> "InsufficientFunds", account |-> acc]
    ELSE [result |-> "Ok", account |-> Commit(acc, change)]

\* apply that adds to held before it checks the funds, so that a rejected
\* delta leaves held changed.
apply_held_first(acc, change) ==
    IF acc.locked
    THEN [result |-> "Locked", account |-> acc]
    ELSE IF Overdraws(acc, change)
    THEN [result |-> "InsufficientFunds",
          account |-> IF IsSome(change.held)
                      THEN [acc EXCEPT !.held = @ + Unwrap(change.held)]
                      ELSE acc]
    ELSE [result |-> "Ok", account |-> Commit(acc, change)]

\* Amount is rust_decimal::Decimal, which holds the values between
\* -Decimal::MAX and Decimal::MAX; input.decimal_max is Decimal::MAX counted
\* in the unit the amounts of the input are counted in.
InRange(d) == (0 - input.decimal_max) <= d /\ d <= input.decimal_max

\* The additions of apply and update_total, in the order the call reaches
\* them; the + and += of Decimal panic when the sum is out of range.
Overflows(acc, change) ==
    /\ ~acc.locked
    /\ \/ /\ IsSome(change.available)
          /\ ~InRange(acc.available + Unwrap(change.available))
       \/ /\ ~Overdraws(acc, change)
          /\ \/ /\ IsSome(change.held)
                /\ ~InRange(acc.held + Unwrap(change.held))
             \/ ~InRange(Commit(acc, change).total)

\* Account::apply: the result and the account as the call leaves it.
apply(acc, change) ==
    IF acc.locked
    THEN [result |-> "Locked", account |-> acc]
    ELSE IF Overdraws(acc, change)
    THEN [result |-> "InsufficientFunds", account |-> acc]
    ELSE [result |-> "Ok", account |-> Commit(acc, change)]

\* ---------------------------------------------------------------- stores
\* A store that keeps the referenced account only.
get_mut_or_new_alone(accs, client_id) ==
    IF client_id \in DOMAIN accs
    THEN (client_id :> accs[client_id])
    ELSE (client_id :> Account_new(client_id))

\* A store that inserts a new account on every reference.
get_mut_or_new_always_new(accs, client_id) ==
    (client_id :> Account_new(client_id)) @@ accs

\* AccountStore::get_mut_or_new: entry(client_id).or_insert(Account::new(client_id))
get_mut_or_new(accs, client_id) ==
    IF client_id \in DOMAIN accs
    THEN accs
    ELSE (client_id :> Account_new(client_id)) @@ accs

\* TransactionStore::insert: HashMap::insert, which replaces an entry already
\* stored under the same key.
insert(store, transaction) ==
    (transaction.tx_id :> transaction) @@ store

\* ---------------------------------------------------------------- TransactionProcessor
\* A report that overwrites whatever state the transaction is in.
set_state_of_any(store, tx_id, state) ==
    IF tx_id \in DOMAIN store
    THEN [store EXCEPT ![tx_id].state = state]
    ELSE store

set_state(store, tx_id, state) ==
    IF tx_id \in DOMAIN store /\ store[tx_id].state = "New"
    THEN [store EXCEPT ![tx_id].state = state]
    ELSE store

\* A success that is not reported to the store.
succeed_unreported(store, tx_id) == store

succeed(store, tx_id) == set_state(store, tx_id, "Succeeded")

\* A failure report that marks the transaction Succeeded.
failed_as_succeeded(store, tx_id) == set_state(store, tx_id, "Succeeded")

failed(store, tx_id) == set_state(store, tx_id, "Failed")

Unchanged(store) == [change |-> AccountDelta_none, store |-> store]

\* The delta and the state change of a dispute that is honoured.
Disputing(store, id) ==
    IF store[id].kind.type = "Deposit"
    THEN [change |-> AccountDelta_dispute_deposit(store[id].kind.amount),
          store |-> [store EXCEPT ![id].state = "Disputed"]]
    ELSE IF store[id].kind.type = "Withdrawal"
    THEN [change |-> AccountDelta_dispute_withdrawal(store[id].kind.amount),
          store |-> [store EXCEPT ![id].state = "Disputed"]]
    ELSE Unchanged(store)

\* dispute without the comparison of the two client ids.
dispute_of_any_client(store, disputed_transaction) ==
    LET id == disputed_transaction.tx_id IN
    IF id \notin DOMAIN store THEN Unchanged(store)
    ELSE IF store[id].state \in {"Resolved", "Chargeback", "Disputed"} THEN Unchanged(store)
    ELSE Disputing(store, id)

dispute(store, disputed_transaction) ==
    LET id == disputed_transaction.tx_id IN
    IF id \notin DOMAIN store THEN Unchanged(store)
    ELSE IF disputed_transaction.client_id # store[id].client_id THEN Unchanged(store)
    ELSE IF store[id].state \in {"Resolved", "Chargeback", "Disputed"} THEN Unchanged(store)
    ELSE Disputing(store, id)

\* The delta and the state change of a resolve that is honoured.
Resolving(store, id) ==
    IF HasAmount(store[id].kind)
    THEN [change |-> AccountDelta_resolve(store[id].kind.amount),
          store |-> [store EXCEPT ![id].state = "Resolved"]]
    ELSE Unchanged(store)

\* resolve without the check that the transaction is Disputed.
resolve_in_any_state(store, resolve_transaction) ==
    LET id == resolve_transaction.tx_id IN
    IF id \notin DOMAIN store THEN Unchanged(store)
    ELSE IF resolve_transaction.client_id # store[id].client_id THEN Unchanged(store)
    ELSE Resolving(store, id)

resolve(store, resolve_transaction) ==
    LET id == resolve_transaction.tx_id IN
    IF id \notin DOMAIN store THEN Unchanged(store)
    ELSE IF resolve_transaction.client_id # store[id].client_id THEN Unchanged(store)
    ELSE IF store[id].state # "Disputed" THEN Unchanged(store)
    ELSE Resolving(store, id)

\* chargeback without the comparison of the two client ids.
chargeback_of_any_client(store, chargeback_transaction) ==
    LET id == chargeback_transaction.tx_id IN
    IF id \notin DOMAIN store THEN Unchanged(store)
    ELSE IF store[id].state = "Disputed" /\ HasAmount(store[id].kind)
    THEN [change |-> AccountDelta_chargeback(store[id].kind.amount),
          store |-> [store EXCEPT ![id].state = "Chargeback"]]
    ELSE Unchanged(store)

\* chargeback without the check that the transaction is Disputed.
chargeback_in_any_state(store, chargeback_transaction) ==
    LET id == chargeback_transaction.tx_id IN
    IF id \notin DOMAIN store THEN Unchanged(store)
    ELSE IF chargeback_transaction.client_id # store[id].client_id THEN Unchanged(store)
    ELSE IF HasAmount(store[id].kind)
    THEN [change |-> AccountDelta_chargeback(store[id].kind.amount),
          store |-> [store EXCEPT ![id].state = "Chargeback"]]
    ELSE Unchanged(store)

chargeback(store, chargeback_transaction) ==
    LET id == chargeback_transaction.tx_id IN
    IF id \notin DOMAIN store THEN Unchanged(store)
    ELSE IF chargeback_transaction.client_id # store[id].client_id THEN Unchanged(store)
    ELSE IF store[id].state = "Disputed"
    THEN IF HasAmount(store[id].kind)
         THEN [change |-> AccountDelta_chargeback(store[id].kind.amount),
               store |-> [store EXCEPT ![id].state = "Chargeback"]]
         ELSE Unchanged(store)
    ELSE Unchanged(store)

\* A processor that also inserts the disputes it is handed.
produce_delta_storing_disputes(store, transaction) ==
    CASE transaction.kind.type = "Deposit" ->
            [change |-> AccountDelta_deposit(transaction.kind.amount),
             store |-> insert(store, transaction)]
      [] transaction.kind.type = "Withdrawal" ->
            [change |-> AccountDelta_withdrawal(transaction.kind.amount),
             store |-> insert(store, transaction)]
      [] transaction.kind.type = "Dispute" ->
            [change |-> dispute(store, transaction).change,
             store |-> insert(dispute(store, transaction).store, transaction)]
      [] transaction.kind.type = "Resolve" -> resolve(store, transaction)
      [] transaction.kind.type = "Chargeback" -> chargeback(store, transaction)

produce_delta(store, transaction) ==
    CASE transaction.kind.type = "Deposit" ->
            [change |-> AccountDelta_deposit(transaction.kind.amount),
             store |-> insert(store, transaction)]
      [] transaction.kind.type = "Withdrawal" ->
            [change |-> AccountDelta_withdrawal(transaction.kind.amount),
             store |-> insert(store, transaction)]
      [] transaction.kind.type = "Dispute" -> dispute(store, transaction)
      [] transaction.kind.type = "Resolve" -> resolve(store, transaction)
      [] transaction.kind.type = "Chargeback" -> chargeback(store, transaction)

\* ---------------------------------------------------------------- Engine
\* The pieces of one Engine::process_transaction call on the current state.
Produced(transaction) == produce_delta(transactions, transaction)

\* The call reaches a Decimal addition of Account::apply that overflows.
Panics(transaction) ==
    Overflows(get_mut_or_new(accounts, transaction.client_id)[transaction.client_id],
              Produced(transaction).change)

Applied(transaction) ==
    apply(get_mut_or_new(accounts, transaction.client_id)[transaction.client_id],
          Produced(transaction).change)

process_transaction(transaction) ==
    LET client_id == transaction.client_id
        tx_id == transaction.tx_id
        produced == Produced(transaction)
        applied == Applied(transaction)
    IN  /\ accounts' = [get_mut_or_new(accounts, client_id) EXCEPT
                            ![client_id] = applied.account]
        /\ transactions' = IF applied.result = "Ok"
                           THEN succeed(produced.store, tx_id)
                           ELSE failed(produced.store, tx_id)
        /\ last' = [tx |-> transaction,
                    change |-> produced.change,
                    result |-> applied.result]
        /\ disputed' = disputed \cup
                {id \in DOMAIN produced.store :
                    /\ produced.store[id].state = "Disputed"
                    /\ (id \notin DOMAIN transactions
                            \/ transactions[id].state # "Disputed")}

\* Engine::process_transaction as a function of the engine it is called on:
\* the ledger and the log that the call leaves.
Engine_process(engine, transaction) ==
    LET client_id == transaction.client_id
        produced == produce_delta(engine.transactions, transaction)
        ledger == get_mut_or_new(engine.accounts, client_id)
        applied == apply(ledger[client_id], produced.change)
    IN  [accounts |-> [ledger EXCEPT ![client_id] = applied.account],
         transactions |-> IF applied.result = "Ok"
                          THEN succeed(produced.store, transaction.tx_id)
                          ELSE failed(produced.store, transaction.tx_id)]

\* Engine::default()
Engine_default == [accounts |-> <<>>, transactions |-> <<>>]

NotCompared == <<>>

\* ---------------------------------------------------------------- main
\* main hands every parsed record to the engine, one at a time, in input order.
\* A call in which the Decimal arithmetic of apply overflows panics: the
\* process dies inside the call, and nothing of its state is seen again.
Feed(transaction) ==
    /\ pc = "read"
    /\ read < input.records
    /\ read' = read + 1
    /\ processed' = processed + 1
    /\ IF Panics(transaction)
       THEN /\ pc' = "panicked"
            /\ last' = [tx |-> transaction,
                        change |-> Produced(transaction).change,
                        result |-> "Panic"]
            /\ UNCHANGED <<accounts, transactions, disputed>>
       ELSE /\ process_transaction(transaction)
            /\ pc' = pc
    /\ alone' = IF alone = NotCompared \/ Panics(transaction)
                THEN alone
                ELSE [alone EXCEPT ![transaction.client_id] =
                                        Engine_process(@, transaction)]
    /\ UNCHANGED <<input, output, balance, text, build>>

\* The tx ids the next deposit or withdrawal record of the input may carry.
FreshTxIds ==
    IF input.unique_ids THEN input.tx_ids \ DOMAIN transactions ELSE input.tx_ids

DepositTx ==
    \E c \in Clients, id \in FreshTxIds, a \in input.amounts :
        Feed(Transaction(Deposit(a), id, c))

WithdrawalTx ==
    \E c \in Clients, id \in FreshTxIds, a \in input.amounts :
        Feed(Transaction(Withdrawal(a), id, c))

DisputeTx ==
    \E c \in Clients, id \in input.tx_ids : Feed(Transaction(Dispute, id, c))

ResolveTx ==
    \E c \in Clients, id \in input.tx_ids : Feed(Transaction(Resolve, id, c))

ChargebackTx ==
    \E c \in Clients, id \in input.tx_ids : Feed(Transaction(Chargeback, id, c))

\* No process_transaction call: none made yet, or the record was skipped.
NoCall ==
    [tx |-> [kind |-> [type |-> "None"], client_id |-> 0, tx_id |-> 0, state |-> "New"],
     change |-> AccountDelta_none,
     result |-> "None"]

\* cli.rs: the extension a transactions file must have.
FILE_EXT == "csv"

\* Path::extension().and_then(OsStr::to_str) of the paths explored: no
\* extension, the expected one, the expected one in another case, another one.
Extensions == {None, Some("csv"), Some("CSV"), Some("txt")}

\* A validation that accepts every path.
validate_ext_any(ext) == "Ok"

\* cli::validate_ext
validate_ext(ext) ==
    IF ~IsSome(ext) THEN "InvalidFileExt"
    ELSE IF Unwrap(ext) # FILE_EXT THEN "InvalidFileExt"
    ELSE "Ok"

\* main: validate_ext(&args)?
ValidateExt ==
    /\ pc = "start"
    /\ pc' = IF validate_ext(input.ext) = "Ok" THEN "open" ELSE "failed"
    /\ UNCHANGED <<accounts, transactions, processed, last, disputed, input, read, output,
                   balance, text, build, alone>>

\* main: File::open(args.transactions_file)?
OpenFile ==
    /\ pc = "open"
    /\ pc' = IF input.openable THEN "read" ELSE "failed"
    /\ UNCHANGED <<accounts, transactions, processed, last, disputed, input, read, output,
                   balance, text, build, alone>>

\* A loop that returns the deserialization error instead of skipping the record.
BadRecord_aborts ==
    /\ pc = "read"
    /\ read < input.records
    /\ read' = read + 1
    /\ pc' = "failed"
    /\ last' = NoCall
    /\ UNCHANGED <<accounts, transactions, processed, disputed, input, output,
                   balance, text, build, alone>>

\* main: a record that fails to deserialize is printed and skipped.
BadRecord ==
    /\ pc = "read"
    /\ read < input.records
    /\ read' = read + 1
    /\ last' = NoCall
    /\ UNCHANGED <<accounts, transactions, processed, disputed, input, pc, output,
                   balance, text, build, alone>>

\* main: the reader is exhausted; every account of the ledger is serialized.
WriteAccounts ==
    /\ pc = "read"
    /\ read = input.records
    /\ output' = {accounts[c] : c \in DOMAIN accounts}
    /\ pc' = "done"
    /\ last' = NoCall
    /\ UNCHANGED <<accounts, transactions, processed, disputed, input, read,
                   balance, text, build, alone>>

\* Decimal::MAX in the unit of small amounts: 79228162514264337593543950335,
\* above every balance an input of the lengths explored can build, so any
\* value above those balances stands for it.
Plenty ==
    2 * (MaxAmount + 1) * (MaxTxnsWellFormed + MaxTxnsPositive + MaxTxns
                            + MaxTxnsLifecycle + MaxTxnsIsolation
                            + MaxTxnsNonNegative) + 1

\* Amounts counted in units of 5 * 10^28: an input whose every amount is
\* 50000000000000000000000000000. Decimal::MAX is more than one such unit and
\* less than two, so a balance is in range exactly when it is -1, 0 or 1.
HugeAmounts == {1}
HugeDecimalMax == 1

\* ---------------------------------------------------------------- serializer
\* fixed_width_amount: the number of fractional digits asked for.
PRECISION == 4

RECURSIVE Pow10(_)
Pow10(n) == IF n = 0 THEN 1 ELSE 10 * Pow10(n - 1)

\* A Decimal: a sign flag, a mantissa and a scale; its value is the mantissa
\* divided by 10^scale. 3.0 has mantissa 30 and scale 1, 8 has scale 0.
Decimals == [negative : BOOLEAN, mantissa : 0..MaxMantissa, scale : 0..MaxScale]

is_zero(d) == d.mantissa = 0

\* Decimal::round_dp_with_strategy(dp, MidpointAwayFromZero): a value that has
\* no more than dp fractional digits is returned as it is; a longer one is cut
\* to dp digits, the last one raised when the part cut off is half a unit or
\* more. Depending on the build, zero is returned with scale dp or as it is.
round_dp_with_strategy(d, dp) ==
    IF build.zero_takes_dp /\ is_zero(d) THEN [d EXCEPT !.scale = dp]
    ELSE IF d.scale <= dp THEN d
    ELSE LET cut == Pow10(d.scale - dp)
             quotient == d.mantissa \div cut
             remainder == d.mantissa % cut
         IN  [negative |-> d.negative,
              mantissa |-> IF 2 * remainder >= cut THEN quotient + 1 ELSE quotient,
              scale |-> dp]

DigitChars == <<"0", "1", "2", "3", "4", "5", "6", "7", "8", "9">>

RECURSIVE Digits(_)
Digits(n) ==
    IF n < 10 THEN <<DigitChars[n + 1]>>
    ELSE Append(Digits(n \div 10), DigitChars[(n % 10) + 1])

RECURSIVE ZeroPad(_, _)
ZeroPad(digits, width) ==
    IF Len(digits) >= width THEN digits ELSE ZeroPad(<<"0">> \o digits, width)

\* Decimal::to_string: the digits of the mantissa with a point before the
\* last scale of them, and no point when the scale is 0. Depending on the
\* build, a zero whose sign flag is set is written with or without "-".
to_string(d) ==
    LET digits == ZeroPad(Digits(d.mantissa), d.scale + 1)
        whole == SubSeq(digits, 1, Len(digits) - d.scale)
        fraction == SubSeq(digits, Len(digits) - d.scale + 1, Len(digits))
        sign == IF d.negative /\ (~is_zero(d) \/ build.minus_zero)
                THEN <<"-">> ELSE <<>>
    IN  sign \o whole \o (IF d.scale = 0 THEN <<>> ELSE <<".">> \o fraction)

fixed_width_amount(d) == to_string(round_dp_with_strategy(d, PRECISION))

\* Builds of rust_decimal.
Builds == [zero_takes_dp : BOOLEAN, minus_zero : BOOLEAN]

\* serde calls fixed_width_amount for a balance of the account it writes.
Serialize ==
    /\ pc = "serialize"
    /\ text' = fixed_width_amount(balance)
    /\ pc' = "serialized"
    /\ UNCHANGED <<accounts, transactions, processed, last, disputed, input, read,
                   output, balance, build, alone>>

\* The specifications of the engine and of main serialize nothing.
NothingSerialized ==
    /\ balance = [negative |-> FALSE, mantissa |-> 0, scale |-> 0]
    /\ text = <<>>
    /\ build = [zero_takes_dp |-> FALSE, minus_zero |-> FALSE]

\* Engine::default(): both stores empty.
EngineDefault ==
    /\ accounts = <<>>
    /\ transactions = <<>>
    /\ processed = 0
    /\ last = NoCall
    /\ disputed = {}
    /\ read = 0
    /\ output = {}
    /\ NothingSerialized

\* main inside its record loop, on a file it has validated and opened.
Reading(amounts, tx_ids, unique_ids, records) ==
    /\ EngineDefault
    /\ pc = "read"
    /\ input = [amounts |-> amounts, tx_ids |-> tx_ids, unique_ids |-> unique_ids,
                records |-> records, ext |-> Some(FILE_EXT), openable |-> TRUE,
                decimal_max |-> Plenty]
    /\ alone = NotCompared

\* An arbitrary input: amounts of any sign, tx ids that may repeat.
Init == Reading(Amounts, TxIds, FALSE, MaxTxns)

\* The same program reading an input whose amounts are all positive.
InitPositive == Reading(PositiveAmounts, TxIds, FALSE, MaxTxnsPositive)

\* The same program reading a well-formed input: positive amounts, and no tx
\* id carried by two deposit or withdrawal records.
InitWellFormed == Reading(PositiveAmounts, MoreTxIds, TRUE, MaxTxnsWellFormed)

\* The same program reading an input whose amounts are all 1, whose deposits
\* and withdrawals either may repeat a tx id or have each a tx id of its own.
InitLifecycle ==
    \E ids \in {<<TxIds, FALSE>>, <<MoreTxIds, TRUE>>} :
        Reading(UnitAmounts, ids[1], ids[2], MaxTxnsLifecycle)

\* The same program reading an input without negative amounts.
InitNonNegative == Reading(NonNegativeAmounts, TxIds, FALSE, MaxTxnsNonNegative)

\* The same program reading an input of amounts of any sign in which no tx id
\* is carried by two deposit or withdrawal records, followed together with
\* the runs of a fresh engine on the records of each client alone. Two tx
\* ids leave room for one deposit or withdrawal of each client.
InitIsolation ==
    /\ EngineDefault
    /\ pc = "read"
    /\ input = [amounts |-> Amounts, tx_ids |-> TxIds, unique_ids |-> TRUE,
                records |-> MaxTxnsIsolation, ext |-> Some(FILE_EXT),
                openable |-> TRUE, decimal_max |-> Plenty]
    /\ alone = [c \in Clients |-> Engine_default]

\* A whole run of main: any path, a file that opens or not, of any length up
\* to MaxTxnsMain, whose records may fail to parse.
\* The amounts are either small, or the huge ones below.
InitMain ==
    /\ EngineDefault
    /\ pc = "start"
    /\ \E sizes \in {<<PositiveAmounts, Plenty>>, <<HugeAmounts, HugeDecimalMax>>} :
          input \in [amounts : {sizes[1]}, tx_ids : {TxIds}, unique_ids : {FALSE},
                     records : 0..MaxTxnsMain, ext : Extensions, openable : BOOLEAN,
                     decimal_max : {sizes[2]}]
    /\ alone = NotCompared

\* The serializer, handed any balance, under any build.
InitFormat ==
    /\ accounts = <<>>
    /\ transactions = <<>>
    /\ processed = 0
    /\ last = NoCall
    /\ disputed = {}
    /\ read = 0
    /\ output = {}
    /\ input = [ext |-> Some(FILE_EXT), openable |-> TRUE]
    /\ pc = "serialize"
    /\ balance \in Decimals
    /\ text = <<>>
    /\ build \in Builds
    /\ alone = NotCompared

NextFormat == Serialize

Next == DepositTx \/ WithdrawalTx \/ DisputeTx \/ ResolveTx \/ ChargebackTx

NextMain ==
    \/ ValidateExt \/ OpenFile \/ BadRecord \/ WriteAccounts
    \/ DepositTx \/ WithdrawalTx \/ DisputeTx \/ ResolveTx \/ ChargebackTx

Spec == Init /\ [][Next]_vars

SpecPositive == InitPositive /\ [][Next]_vars

SpecWellFormed == InitWellFormed /\ [][Next]_vars

SpecLifecycle == InitLifecycle /\ [][Next]_vars

SpecNonNegative == InitNonNegative /\ [][Next]_vars

SpecIsolation == InitIsolation /\ [][Next]_vars

SpecFormat == InitFormat /\ [][NextFormat]_vars

\* main runs to completion: single-threaded, nothing suspends it.
SpecMain == InitMain /\ [][NextMain]_vars /\ WF_vars(NextMain)

\* ================================================================ claims
\* The call a step makes is read from last', the state it starts from from the
\* unprimed variables.
Referencing == {"Dispute", "Resolve", "Chargeback"}

Called == processed > 0

\* The stored transaction a call refers to, when there is one.
Stored(t) == transactions[t.tx_id]

IsStored(t) == t.tx_id \in DOMAIN transactions

OwnedByCaller(t) == IsStored(t) /\ Stored(t).client_id = t.client_id

\* No account that exists before the step differs after it.
AccountsKept == \A c \in DOMAIN accounts : c \in DOMAIN accounts' /\ accounts'[c] = accounts[c]

\* Every account the step creates has all fields zero/false.
CreatedEmpty == \A c \in DOMAIN accounts' \ DOMAIN accounts : accounts'[c] = Account_new(c)

\* ---------------------------------------------------------------- C1
\* C1: in every reachable state every account of the ledger has
\* total = available + held, also after a call that apply rejected.
C1_TotalIsAvailablePlusHeld ==
    \A c \in DOMAIN accounts :
        accounts[c].total = accounts[c].available + accounts[c].held

\* A rejected call on an account that holds funds.
C1_Witness ==
    /\ Called
    /\ last.result \in {"Locked", "InsufficientFunds"}
    /\ accounts[last.tx.client_id].held > 0
    /\ accounts[last.tx.client_id].available > 0

\* ---------------------------------------------------------------- C2
\* C2: once an account is locked it stays locked, no later call changes its
\* available, held or total, and every later apply on it returns Locked.
C2_LockedIsPermanent ==
    [][\A c \in DOMAIN accounts :
            accounts[c].locked =>
                /\ c \in DOMAIN accounts'
                /\ accounts'[c] = accounts[c]
                /\ (last'.tx.client_id = c => last'.result = "Locked")]_vars

\* A deposit submitted to a locked account that still has funds.
C2_Witness ==
    /\ Called
    /\ last.tx.kind.type = "Deposit"
    /\ last.tx.kind.amount > 0
    /\ last.result = "Locked"
    /\ accounts[last.tx.client_id].locked

\* ---------------------------------------------------------------- C3
\* C3: the stored lifecycle state of every tx id only moves forward: it never
\* returns to New, Succeeded or Failed once Disputed, Resolved or Chargeback;
\* Resolved and Chargeback are never left; and a tx id that has been Disputed
\* never enters Disputed a second time.
C3_StateOnlyMovesForward ==
    [][\A id \in DOMAIN transactions :
            /\ id \in DOMAIN transactions'
            /\ (transactions[id].state \in {"Disputed", "Resolved", "Chargeback"}
                    => transactions'[id].state \notin {"New", "Succeeded", "Failed"})
            /\ (transactions[id].state \in {"Resolved", "Chargeback"}
                    => transactions'[id].state = transactions[id].state)
            /\ (id \in disputed /\ transactions[id].state # "Disputed"
                    => transactions'[id].state # "Disputed")]_vars

\* ---------------------------------------------------------------- C4
\* C4: a Dispute that references a stored transaction in state Failed leaves
\* its state Failed and changes no account balance.
C4_FailedIsNeverDisputed ==
    [][(/\ last'.tx.kind.type = "Dispute"
        /\ IsStored(last'.tx)
        /\ Stored(last'.tx).state = "Failed")
            => /\ transactions'[last'.tx.tx_id].state = "Failed"
               /\ AccountsKept]_vars

\* ---------------------------------------------------------------- C5
\* C5: a Resolve by the owning client on a stored transaction in state
\* Disputed, the owner's account not locked, adds the amount to available,
\* takes it from held, leaves total unchanged and makes the transaction
\* Resolved, whatever the balances (a negative available included).
C5_ResolveMovesHeldToAvailable ==
    [][(/\ last'.tx.kind.type = "Resolve"
        /\ OwnedByCaller(last'.tx)
        /\ Stored(last'.tx).state = "Disputed"
        /\ last'.tx.client_id \in DOMAIN accounts
        /\ ~accounts[last'.tx.client_id].locked)
            => LET c == last'.tx.client_id
                   amount == Stored(last'.tx).kind.amount
               IN  /\ accounts'[c].available = accounts[c].available + amount
                   /\ accounts'[c].held = accounts[c].held - amount
                   /\ accounts'[c].total = accounts[c].total
                   /\ transactions'[last'.tx.tx_id].state = "Resolved"]_vars

\* ---------------------------------------------------------------- C6
\* C6: a Deposit(amount) for a client whose account is not locked adds amount
\* to available and to total, leaves held and locked unchanged and leaves the
\* stored transaction Succeeded, whatever the account's balances.
C6_DepositAddsToAvailable ==
    [][(/\ last'.tx.kind.type = "Deposit"
        /\ ~get_mut_or_new(accounts, last'.tx.client_id)[last'.tx.client_id].locked)
            => LET c == last'.tx.client_id
                   before == get_mut_or_new(accounts, c)[c]
                   amount == last'.tx.kind.amount
               IN  /\ accounts'[c].available = before.available + amount
                   /\ accounts'[c].total = before.total + amount
                   /\ accounts'[c].held = before.held
                   /\ accounts'[c].locked = before.locked
                   /\ transactions'[last'.tx.tx_id].state = "Succeeded"]_vars

\* ---------------------------------------------------------------- C7
\* A Dispute, Resolve or Chargeback whose reference cannot be honoured: the
\* tx id is missing, belongs to another client, or is in the wrong state.
Unresolvable(t) ==
    /\ t.kind.type \in Referencing
    /\ \/ ~IsStored(t)
       \/ Stored(t).client_id # t.client_id
       \/ t.kind.type = "Dispute"
            /\ Stored(t).state \in {"Disputed", "Resolved", "Chargeback"}
       \/ t.kind.type \in {"Resolve", "Chargeback"}
            /\ Stored(t).state # "Disputed"

\* C7: an unresolvable Dispute, Resolve or Chargeback never takes the Engine's
\* failure path (failed() and the failure log), also when the submitting
\* client's account is locked.
C7_UnresolvableIsNeverAFailure ==
    [][Unresolvable(last'.tx) => last'.result = "Ok"]_vars

\* ---------------------------------------------------------------- C8
\* C8: a Dispute, Resolve or Chargeback submitted by a client other than the
\* owner of the stored transaction it references changes no existing account,
\* creates no account with a non-zero field and leaves the referenced
\* transaction's state unchanged.
C8_CrossClientHasNoEffect ==
    [][(/\ last'.tx.kind.type \in Referencing
        /\ IsStored(last'.tx)
        /\ Stored(last'.tx).client_id # last'.tx.client_id)
            => /\ AccountsKept
               /\ CreatedEmpty
               /\ transactions'[last'.tx.tx_id].state = Stored(last'.tx).state]_vars

\* Another client has disputed a succeeded deposit whose funds are available.
C8_Witness ==
    /\ Called
    /\ last.tx.kind.type = "Dispute"
    /\ IsStored(last.tx)
    /\ Stored(last.tx).client_id # last.tx.client_id
    /\ Stored(last.tx).state = "Succeeded"
    /\ accounts[Stored(last.tx).client_id].available > 0

\* ---------------------------------------------------------------- C9
\* A Resolve or Chargeback whose referenced transaction is absent or not Disputed.
NotInDispute(t) ==
    /\ t.kind.type \in {"Resolve", "Chargeback"}
    /\ (IsStored(t) => Stored(t).state # "Disputed")

\* C9 as claimed: such a call leaves the whole ledger, the set of accounts
\* included, and every stored transaction unchanged.
C9_LedgerUnchanged ==
    [][NotInDispute(last'.tx)
            => accounts' = accounts /\ transactions' = transactions]_vars

\* C9 as amended: such a call leaves every existing account and every stored
\* transaction unchanged; the one change it can make is to create the
\* submitting client's account, with every field zero/false.
C9_ExistingLedgerUnchanged ==
    [][NotInDispute(last'.tx)
            => /\ transactions' = transactions
               /\ AccountsKept
               /\ CreatedEmpty
               /\ DOMAIN accounts' = DOMAIN accounts \cup {last'.tx.client_id}]_vars

\* A second Resolve by the owner, after the first has resolved the dispute.
C9_Witness ==
    /\ Called
    /\ last.tx.kind.type = "Resolve"
    /\ OwnedByCaller(last.tx)
    /\ Stored(last.tx).state = "Resolved"
    /\ last.change = AccountDelta_none
    /\ accounts[last.tx.client_id].available > 0

\* ---------------------------------------------------------------- C10
\* C10: for every tx id at most one Dispute produces a non-empty delta: a
\* Dispute on a tx id that a Dispute has already moved to Disputed produces
\* the empty delta and changes no balance.
C10_DisputedAtMostOnce ==
    [][(last'.tx.kind.type = "Dispute" /\ last'.tx.tx_id \in disputed)
            => last'.change = AccountDelta_none /\ AccountsKept]_vars

\* ---------------------------------------------------------------- C11
\* The account a call on the current state works on: the client's account,
\* or the empty one get_mut_or_new creates.
Before(t) == get_mut_or_new(accounts, t.client_id)[t.client_id]

\* A withdrawal of more than the account's available.
Overdrawing(t) ==
    /\ t.kind.type = "Withdrawal"
    /\ t.kind.amount > Before(t).available

\* The call was rejected with InsufficientFunds, left the account as it was,
\* stored the withdrawal as Failed, and main goes on reading records.
RejectedForFunds(t) ==
    /\ last'.result = "InsufficientFunds"
    /\ accounts'[t.client_id] = Before(t)
    /\ transactions'[t.tx_id].state = "Failed"
    /\ pc' = "read"

\* C11 as claimed: a Withdrawal of more than the account's available fails
\* with InsufficientFunds, leaves the account unchanged and is stored Failed;
\* the records that follow are still processed.
C11_OverdrawIsInsufficientFunds ==
    [][Overdrawing(last'.tx) => RejectedForFunds(last'.tx)]_vars

\* C11 as amended: the same for an account that is not locked; on a locked
\* account the withdrawal fails with Locked instead, with the same effects.
C11_OverdrawIsRejected ==
    [][Overdrawing(last'.tx)
            => IF Before(last'.tx).locked
               THEN /\ last'.result = "Locked"
                    /\ accounts'[last'.tx.client_id] = Before(last'.tx)
                    /\ transactions'[last'.tx.tx_id].state = "Failed"
                    /\ pc' = "read"
               ELSE RejectedForFunds(last'.tx)]_vars

\* A withdrawal of more than the funds of an account that has some.
C11_Witness ==
    /\ Called
    /\ last.tx.kind.type = "Withdrawal"
    /\ last.result = "InsufficientFunds"
    /\ accounts[last.tx.client_id].available > 0
    /\ last.tx.kind.amount > accounts[last.tx.client_id].available
    /\ transactions[last.tx.tx_id].state = "Failed"

\* ---------------------------------------------------------------- C12
\* A Dispute by the owner of a stored transaction of the given kind that has
\* not been disputed, on an account that is not locked.
DisputeOf(t, type) ==
    /\ t.kind.type = "Dispute"
    /\ OwnedByCaller(t)
    /\ Stored(t).kind.type = type
    /\ Stored(t).state \in {"New", "Succeeded", "Failed"}
    /\ ~Before(t).locked

\* C12: such a Dispute on a deposit always succeeds: available decreases by
\* the amount (below zero if the funds are gone), held increases by it, total
\* is unchanged and the deposit becomes Disputed.
C12_DisputeOnDepositHoldsFunds ==
    [][DisputeOf(last'.tx, "Deposit")
            => LET c == last'.tx.client_id
                   amount == Stored(last'.tx).kind.amount
               IN  /\ last'.result = "Ok"
                   /\ accounts'[c].available = accounts[c].available - amount
                   /\ accounts'[c].held = accounts[c].held + amount
                   /\ accounts'[c].total = accounts[c].total
                   /\ transactions'[last'.tx.tx_id].state = "Disputed"]_vars

\* A dispute on a deposit whose funds were withdrawn: the account is in debt.
C12_Witness ==
    /\ Called
    /\ last.tx.kind.type = "Dispute"
    /\ last.result = "Ok"
    /\ OwnedByCaller(last.tx)
    /\ Stored(last.tx).kind.type = "Deposit"
    /\ Stored(last.tx).kind.amount > 0
    /\ Stored(last.tx).state = "Disputed"
    /\ IsSome(last.change.held)
    /\ accounts[last.tx.client_id].available < 0

\* ---------------------------------------------------------------- C13
\* C13: such a Dispute on a withdrawal increases held and total by the
\* amount, leaves available unchanged and makes the withdrawal Disputed.
C13_DisputeOnWithdrawalAddsHeld ==
    [][DisputeOf(last'.tx, "Withdrawal")
            => LET c == last'.tx.client_id
                   amount == Stored(last'.tx).kind.amount
               IN  /\ accounts'[c].held = accounts[c].held + amount
                   /\ accounts'[c].total = accounts[c].total + amount
                   /\ accounts'[c].available = accounts[c].available
                   /\ transactions'[last'.tx.tx_id].state = "Disputed"]_vars

\* A dispute on a withdrawal, on an account that has available funds.
C13_Witness ==
    /\ Called
    /\ last.tx.kind.type = "Dispute"
    /\ last.result = "Ok"
    /\ OwnedByCaller(last.tx)
    /\ Stored(last.tx).kind.type = "Withdrawal"
    /\ Stored(last.tx).kind.amount > 0
    /\ Stored(last.tx).state = "Disputed"
    /\ last.change = AccountDelta_dispute_withdrawal(Stored(last.tx).kind.amount)
    /\ accounts[last.tx.client_id].available > 0

\* ---------------------------------------------------------------- C14
\* C14: a Chargeback by the owner of a stored transaction in state Disputed,
\* on an account that is not locked, decreases held by the amount whatever the
\* available funds, leaves available unchanged, locks the account and makes
\* the transaction Chargeback.
C14_ChargebackTakesHeldAndLocks ==
    [][(/\ last'.tx.kind.type = "Chargeback"
        /\ OwnedByCaller(last'.tx)
        /\ Stored(last'.tx).state = "Disputed"
        /\ ~Before(last'.tx).locked)
            => LET c == last'.tx.client_id
                   amount == Stored(last'.tx).kind.amount
               IN  /\ last'.result = "Ok"
                   /\ accounts'[c].held = accounts[c].held - amount
                   /\ accounts'[c].available = accounts[c].available
                   /\ accounts'[c].locked
                   /\ transactions'[last'.tx.tx_id].state = "Chargeback"]_vars

\* A chargeback of a disputed withdrawal on an account without available funds.
C14_Witness ==
    /\ Called
    /\ last.tx.kind.type = "Chargeback"
    /\ last.result = "Ok"
    /\ OwnedByCaller(last.tx)
    /\ Stored(last.tx).kind.type = "Withdrawal"
    /\ Stored(last.tx).kind.amount > 0
    /\ Stored(last.tx).state = "Chargeback"
    /\ accounts[last.tx.client_id].locked
    /\ accounts[last.tx.client_id].available = 0

\* ---------------------------------------------------------------- C15
\* C15: when Account::apply returns Locked or InsufficientFunds, whatever the
\* delta, the account's available, held, total and locked are unchanged.
C15_RejectedDeltaChangesNothing ==
    [][last'.result \in {"Locked", "InsufficientFunds"}
            => accounts'[last'.tx.client_id] = Before(last'.tx)]_vars

\* A rejected delta that sets both available and held.
C15_Witness ==
    /\ Called
    /\ last.result = "InsufficientFunds"
    /\ IsSome(last.change.available)
    /\ IsSome(last.change.held)
    /\ Unwrap(last.change.held) # 0

\* ---------------------------------------------------------------- C16
\* C16: no call aborts the run. Every step of the record loop takes exactly
\* the next record and leaves main in the loop, whatever the call returned;
\* the run ends only when every record has been taken, and it does end.
C16_NoFailureAbortsTheRun ==
    /\ [][pc = "read" /\ read < input.records
            => /\ pc' = "read"
               /\ read' = read + 1
               /\ processed' \in {processed, processed + 1}]_vars
    /\ [](pc = "done" => read = input.records)
    /\ (pc = "read") ~> (pc = "done")

\* ---------------------------------------------------------------- C17
\* C17: after a call for client c the ledger holds one account under every
\* key it held before and under c, each carrying its key as id; the account
\* of c is the one it held before (all zero and unlocked if it held none)
\* with the delta committed when the call succeeded and untouched otherwise;
\* no other account changes and none is removed.
C17_OneAccountPerReferencedClient ==
    [][processed' = processed + 1
            => LET c == last'.tx.client_id
                   before == IF c \in DOMAIN accounts
                             THEN accounts[c]
                             ELSE [id |-> c, available |-> 0, held |-> 0,
                                   total |-> 0, locked |-> FALSE]
               IN  /\ DOMAIN accounts' = DOMAIN accounts \cup {c}
                   /\ \A k \in DOMAIN accounts' : accounts'[k].id = k
                   /\ accounts'[c] = IF last'.result = "Ok"
                                     THEN Commit(before, last'.change)
                                     ELSE before
                   /\ \A k \in DOMAIN accounts \ {c} : accounts'[k] = accounts[k]]_vars

\* A failed call has left its account with the funds it had, beside an
\* account that a call which moved nothing created empty.
C17_Witness ==
    /\ Called
    /\ last.result = "InsufficientFunds"
    /\ accounts[last.tx.client_id].total > 0
    /\ \E k \in DOMAIN accounts \ {last.tx.client_id} :
            accounts[k] = [id |-> k, available |-> 0, held |-> 0,
                           total |-> 0, locked |-> FALSE]

\* ---------------------------------------------------------------- C19
\* C19: a step of the record loop that takes a record without handing it to
\* the engine, as happens when the record fails to parse, changes neither the
\* ledger nor the log and leaves main in the loop, where the records that
\* follow are taken.
C19_BadRecordIsSkipped ==
    [][pc = "read" /\ read' = read + 1 /\ processed' = processed
            => /\ accounts' = accounts
               /\ transactions' = transactions
               /\ pc' = "read"]_vars

\* A record has been processed with success after one was skipped.
C19_Witness ==
    /\ read > processed
    /\ Called
    /\ last.result = "Ok"
    /\ last.tx.tx_id \in DOMAIN transactions
    /\ pc = "read"

\* ---------------------------------------------------------------- C20
\* C20: when the extension of the path is not exactly FILE_EXT, or the file
\* does not open, no record is ever read, no call is ever made, no account is
\* ever written, and main ends with an error.
C20_BadFileEndsBeforeAnyRecord ==
    /\ []((input.ext # Some("csv") \/ ~input.openable)
            => /\ read = 0
               /\ processed = 0
               /\ accounts = <<>>
               /\ output = {}
               /\ pc \in {"start", "open", "failed"})
    /\ (input.ext # Some("csv") \/ ~input.openable) ~> (pc = "failed")

\* main has failed on a file that would open and has records, whose
\* extension differs from the expected one by its case only.
C20_Witness ==
    /\ pc = "failed"
    /\ input.ext = Some("CSV")
    /\ input.openable
    /\ input.records > 0
    /\ processed = 0

\* ---------------------------------------------------------------- C18
\* The number of characters after the point, 0 without a point.
FractionalDigits(s) ==
    IF \E i \in 1..Len(s) : s[i] = "."
    THEN Len(s) - (CHOOSE i \in 1..Len(s) : s[i] = ".")
    ELSE 0

\* The number a digit character stands for.
DigitValue(c) == (CHOOSE i \in 1..10 : DigitChars[i] = c) - 1

\* The number the digits of s spell when sign and point are left out.
RECURSIVE Spelled(_)
Spelled(s) ==
    IF s = <<>> THEN 0
    ELSE IF s[Len(s)] \in {"-", "."} THEN Spelled(SubSeq(s, 1, Len(s) - 1))
    ELSE 10 * Spelled(SubSeq(s, 1, Len(s) - 1)) + DigitValue(s[Len(s)])

\* The magnitude of d in units of 10^-PRECISION, rounded half away from zero.
RoundedHalfAway(d) ==
    IF d.scale <= PRECISION
    THEN d.mantissa * Pow10(PRECISION - d.scale)
    ELSE (2 * d.mantissa + Pow10(d.scale - PRECISION))
            \div (2 * Pow10(d.scale - PRECISION))

\* C18: the text written for a balance has exactly 4 fractional digits, and
\* these spell the balance rounded half away from zero; a negative balance
\* that does not round to zero is written with its sign.
C18_ExactlyFourFractionalDigits ==
    pc = "serialized"
        => /\ FractionalDigits(text) = 4
           /\ Spelled(text) = RoundedHalfAway(balance)
           /\ (balance.negative /\ RoundedHalfAway(balance) # 0 => text[1] = "-")

\* ---------------------------------------------------------------- C21
\* C21: an entry of the log keeps its kind, amount and client id under every
\* later call, a Deposit or Withdrawal that carries its tx id included.
C21_LogIsAppendOnly ==
    [][\A id \in DOMAIN transactions :
            /\ id \in DOMAIN transactions'
            /\ transactions'[id].kind = transactions[id].kind
            /\ transactions'[id].client_id = transactions[id].client_id]_vars

\* ---------------------------------------------------------------- C22
\* C22: after a call for a Deposit or Withdrawal its stored entry is Succeeded
\* when apply accepted the delta and Failed when apply rejected it; on a
\* locked account it is Failed and the account is as it was.
C22_StateReportsTheOutcome ==
    [][HasAmount(last'.tx.kind)
            => LET t == last'.tx
                   stored == transactions'[t.tx_id]
               IN  /\ t.tx_id \in DOMAIN transactions'
                   /\ last'.result \in {"Ok", "Locked", "InsufficientFunds"}
                   /\ (stored.state = "Succeeded") = (last'.result = "Ok")
                   /\ (stored.state = "Failed") =
                            (last'.result \in {"Locked", "InsufficientFunds"})
                   /\ (t.client_id \in DOMAIN accounts /\ accounts[t.client_id].locked
                            => /\ stored.state = "Failed"
                               /\ accounts'[t.client_id] = accounts[t.client_id])]_vars

\* A deposit to a locked account has been stored as Failed.
C22_Witness ==
    /\ Called
    /\ last.tx.kind.type = "Deposit"
    /\ last.tx.kind.amount > 0
    /\ last.result = "Locked"
    /\ accounts[last.tx.client_id].locked
    /\ transactions[last.tx.tx_id].state = "Failed"

\* ---------------------------------------------------------------- C23
\* C23: the report that follows a Dispute, Resolve or Chargeback leaves the
\* referenced entry in the state produce_delta left it in: Disputed, Resolved
\* or Chargeback when the call was honoured, its earlier state otherwise,
\* also when apply rejected the delta.
C23_ReportKeepsLifecycleState ==
    [][(last'.tx.kind.type \in Referencing /\ IsStored(last'.tx))
            => LET t == last'.tx
                   honoured == last'.change # AccountDelta_none
               IN  transactions'[t.tx_id].state =
                        IF ~honoured THEN Stored(t).state
                        ELSE IF t.kind.type = "Dispute" THEN "Disputed"
                        ELSE IF t.kind.type = "Resolve" THEN "Resolved"
                        ELSE "Chargeback"]_vars

\* A dispute that apply rejected on a locked account: the entry is Disputed.
C23_Witness ==
    /\ Called
    /\ last.tx.kind.type = "Dispute"
    /\ last.result = "Locked"
    /\ last.change # AccountDelta_none
    /\ Stored(last.tx).state = "Disputed"

\* ---------------------------------------------------------------- C24
\* C24: a call for client c leaves every other account of the ledger in
\* place and unchanged, whatever the kind of the transaction.
C24_OtherAccountsUntouched ==
    [][processed' = processed + 1
            => \A k \in DOMAIN accounts \ {last'.tx.client_id} :
                    /\ k \in DOMAIN accounts'
                    /\ accounts'[k] = accounts[k]]_vars

\* A call has changed its account while another client has funds.
C24_Witness ==
    /\ Called
    /\ last.result = "Ok"
    /\ last.change # AccountDelta_none
    /\ \E k \in DOMAIN accounts \ {last.tx.client_id} : accounts[k].total > 0

\* ---------------------------------------------------------------- C25
\* C25: every entry of the log is a Deposit or a Withdrawal.
C25_LogHoldsDepositsAndWithdrawals ==
    \A id \in DOMAIN transactions :
        transactions[id].kind.type \in {"Deposit", "Withdrawal"}

\* A Dispute, Resolve or Chargeback has been processed, under a tx id the
\* log does not hold, while the log holds an entry.
C25_Witness ==
    /\ Called
    /\ last.tx.kind.type \in Referencing
    /\ last.tx.tx_id \notin DOMAIN transactions
    /\ transactions # <<>>

\* ---------------------------------------------------------------- C26
\* C26: when no tx id is carried by two deposit or withdrawal records, the
\* account of every client is at each point of the run, its end included,
\* the account that a run on the records of that client alone has built:
\* present in both or in neither, with the same available, held, total and
\* locked.
C26_ClientsAreIsolated ==
    (alone # NotCompared /\ input.unique_ids)
        => \A c \in Clients :
                IF c \in DOMAIN accounts
                THEN /\ c \in DOMAIN alone[c].accounts
                     /\ alone[c].accounts[c] = accounts[c]
                ELSE c \notin DOMAIN alone[c].accounts

\* A client with funds has referenced a transaction in dispute that another
\* client owns.
C26_Witness ==
    /\ Called
    /\ alone # NotCompared
    /\ last.tx.kind.type \in {"Resolve", "Chargeback"}
    /\ IsStored(last.tx)
    /\ Stored(last.tx).client_id # last.tx.client_id
    /\ Stored(last.tx).state = "Disputed"
    /\ accounts[last.tx.client_id].total > 0
    /\ alone[last.tx.client_id].transactions # <<>>

\* ---------------------------------------------------------------- C27
\* C27: when apply rejects the delta of a Dispute, Resolve or Chargeback, the
\* referenced entry is in the state it was in before the call.
C27_RejectedTransitionIsUndone ==
    [][(/\ last'.tx.kind.type \in Referencing
        /\ IsStored(last'.tx)
        /\ last'.result \in {"Locked", "InsufficientFunds"})
            => transactions'[last'.tx.tx_id].state = Stored(last'.tx).state]_vars

\* ---------------------------------------------------------------- C28
\* The tx ids of the entries of client c that are in state Disputed.
InDispute(c) ==
    {id \in DOMAIN transactions :
        transactions[id].client_id = c /\ transactions[id].state = "Disputed"}

\* The sum of the amounts of the entries stored under ids.
RECURSIVE SumOfAmounts(_)
SumOfAmounts(ids) ==
    IF ids = {} THEN 0
    ELSE LET id == CHOOSE i \in ids : TRUE
         IN  transactions[id].kind.amount + SumOfAmounts(ids \ {id})

\* C28: the held funds of every account that is not locked are the sum of
\* the amounts of its client's entries in state Disputed.
C28_HeldIsTheOpenDisputes ==
    \A c \in DOMAIN accounts :
        ~accounts[c].locked => accounts[c].held = SumOfAmounts(InDispute(c))

\* ---------------------------------------------------------------- C29
\* C29: on an input without negative amounts no account ever has negative
\* held funds.
C29_HeldIsNeverNegative ==
    \A c \in DOMAIN accounts : accounts[c].held >= 0

\* A resolve or a chargeback has taken the last held funds of its account.
C29_Witness ==
    /\ Called
    /\ last.tx.kind.type \in {"Resolve", "Chargeback"}
    /\ last.result = "Ok"
    /\ IsSome(last.change.held)
    /\ Unwrap(last.change.held) < 0
    /\ accounts[last.tx.client_id].held = 0

\* ---------------------------------------------------------------- C30
\* C30: the account of the owner of every entry in state Chargeback is
\* locked; and when no tx id is carried by two deposit or withdrawal records,
\* every locked account belongs to a client that owns an entry in state
\* Chargeback.
C30_LockedMeansChargedBack ==
    /\ \A id \in DOMAIN transactions :
            transactions[id].state = "Chargeback"
                => /\ transactions[id].client_id \in DOMAIN accounts
                   /\ accounts[transactions[id].client_id].locked
    /\ input.unique_ids
            => \A c \in DOMAIN accounts :
                    accounts[c].locked
                        => \E id \in DOMAIN transactions :
                                /\ transactions[id].client_id = c
                                /\ transactions[id].state = "Chargeback"

\* On an input of unique tx ids, a record has been rejected by an account
\* that a chargeback had locked, while another account is not locked.
C30_Witness ==
    /\ Called
    /\ input.unique_ids
    /\ last.result = "Locked"
    /\ accounts[last.tx.client_id].locked
    /\ \E id \in DOMAIN transactions :
            /\ transactions[id].client_id = last.tx.client_id
            /\ transactions[id].state = "Chargeback"
    /\ \E c \in DOMAIN accounts : ~accounts[c].locked

\* ---------------------------------------------------------------- C31
\* C31: between two calls no entry of the log is in state New, so the entry
\* that a Dispute, Resolve or Chargeback references is never New when the
\* call looks it up.
C31_NoStoredTransactionIsNew ==
    /\ [](\A id \in DOMAIN transactions : transactions[id].state # "New")
    /\ [][(last'.tx.kind.type \in Referencing /\ IsStored(last'.tx))
                => Stored(last'.tx).state # "New"]_vars

\* A Dispute, Resolve or Chargeback has referenced a stored entry while the
\* log holds an entry that succeeded and one that failed.
C31_Witness ==
    /\ Called
    /\ last.tx.kind.type \in Referencing
    /\ IsStored(last.tx)
    /\ \E id \in DOMAIN transactions : transactions[id].state = "Succeeded"
    /\ \E id \in DOMAIN transactions : transactions[id].state = "Failed"

\* ---------------------------------------------------------------- C32
\* C32: whatever its amount, a Withdrawal leaves available and total of its
\* account no higher than they were, and a Deposit no lower.
C32_WithdrawalTakesDepositGives ==
    [][LET t == last'.tx
           before == Before(t)
           after == accounts'[t.client_id]
       IN  /\ t.kind.type = "Withdrawal"
                => /\ after.available <= before.available
                   /\ after.total <= before.total
           /\ t.kind.type = "Deposit"
                => /\ after.available >= before.available
                   /\ after.total >= before.total]_vars

====
